---- MODULE Spec2Model ----
(***************************************************************************)
(* Model of dapr/clients/exceptions.py: the error classes                  *)
(* DaprInternalError, DaprHttpError and DaprGrpcError, their constructors  *)
(* and their rendering methods.                                            *)
(*                                                                         *)
(* Python values are records [t |-> <type name>, v |-> <payload>]:         *)
(*   None  [t |-> "NoneType", v |-> 0]                                     *)
(*   str   [t |-> "str",   v |-> <TLA+ string>]                            *)
(*   bytes [t |-> "bytes", v |-> <sequence of 0..255>]                     *)
(*   int   [t |-> "int",   v |-> <integer>]                                *)
(*   list  [t |-> "list",  v |-> <sequence>]                               *)
(*   dict  [t |-> "dict",  v |-> <function from keys to values>]           *)
(***************************************************************************)
EXTENDS Integers, Sequences, FiniteSets, TLC

\* self               the error object constructed last (NoObject before)
\* args               the arguments its constructor was called with
\* deserialize_calls  the calls of serializer.deserialize that constructor made
\* raised             an exception left the constructor
\* result             the method called last on self and what it returned
VARIABLES self, args, deserialize_calls, raised, result

vars == <<self, args, deserialize_calls, raised, result>>

(***************************************************************************)
(* Bounds of the model.                                                    *)
(***************************************************************************)
MaxBodyLen == 3
MaxDetails == 2

(***************************************************************************)
(* Python values.                                                          *)
(***************************************************************************)
PyNone == [t |-> "NoneType", v |-> 0]
PyStr(s) == [t |-> "str", v |-> s]
PyBytes(b) == [t |-> "bytes", v |-> b]
PyInt(n) == [t |-> "int", v |-> n]
PyList(l) == [t |-> "list", v |-> l]
PyDict(d) == [t |-> "dict", v |-> d]

IsNone(x) == x.t = "NoneType"

\* bool(x): None, empty str/bytes/list/dict and 0 are falsy.
Truthy(x) ==
    CASE x.t = "NoneType" -> FALSE
      [] x.t = "str" -> x.v # ""
      [] x.t = "bytes" -> Len(x.v) > 0
      [] x.t = "int" -> x.v # 0
      [] x.t = "list" -> Len(x.v) > 0
      [] x.t = "dict" -> DOMAIN x.v # {}

\* a or b
Or(a, b) == IF Truthy(a) THEN a ELSE b

\* d.get(key, default)
DictGet(d, key, default) == IF key \in DOMAIN d.v THEN d.v[key] ELSE default

\* The text an f-string puts for {x}.
Format(x) ==
    CASE x.t = "NoneType" -> "None"
      [] x.t = "str" -> x.v
      [] x.t = "int" -> ToString(x.v)

ERROR_CODE_UNKNOWN == PyStr("UNKNOWN")
ERROR_CODE_DOES_NOT_EXIST == PyStr("ERR_DOES_NOT_EXIST")

(***************************************************************************)
(* base64.b64encode(...).decode('utf-8')                                   *)
(***************************************************************************)
\* ASCII code of the i-th (0-based) character of the base64 alphabet.
B64Code(i) ==
    IF i < 26 THEN 65 + i
    ELSE IF i < 52 THEN 97 + (i - 26)
    ELSE IF i < 62 THEN 48 + (i - 52)
    ELSE IF i = 62 THEN 43 ELSE 47

\* base64.b64encode over a sequence of bytes; 61 is the padding sign "=".
RECURSIVE b64encode(_)
b64encode(s) ==
    IF Len(s) = 0 THEN <<>>
    ELSE IF Len(s) = 1 THEN
        LET n == s[1] * 65536
        IN  <<B64Code(n \div 262144), B64Code((n \div 4096) % 64), 61, 61>>
    ELSE IF Len(s) = 2 THEN
        LET n == s[1] * 65536 + s[2] * 256
        IN  <<B64Code(n \div 262144), B64Code((n \div 4096) % 64),
              B64Code((n \div 64) % 64), 61>>
    ELSE
        LET n == s[1] * 65536 + s[2] * 256 + s[3]
        IN  <<B64Code(n \div 262144), B64Code((n \div 4096) % 64),
              B64Code((n \div 64) % 64), B64Code(n % 64)>>
            \o b64encode(SubSeq(s, 4, Len(s)))

\* The one-character text of an ASCII code: letters, digits and the three
\* signs of base64 as themselves, any other character by its code.
Chr(c) ==
    IF c \in 65..90 THEN SubSeq("ABCDEFGHIJKLMNOPQRSTUVWXYZ", c - 64, c - 64)
    ELSE IF c \in 97..122 THEN SubSeq("abcdefghijklmnopqrstuvwxyz", c - 96, c - 96)
    ELSE IF c \in 48..57 THEN SubSeq("0123456789", c - 47, c - 47)
    ELSE IF c = 43 THEN "+"
    ELSE IF c = 47 THEN "/"
    ELSE IF c = 61 THEN "="
    ELSE "\\x" \o ToString(c)

RECURSIVE AsciiText(_)
AsciiText(b) == IF Len(b) = 0 THEN "" ELSE Chr(b[1]) \o AsciiText(Tail(b))

\* bytes.decode('utf-8'): a byte >= 128 that starts no valid sequence raises
\* UnicodeDecodeError (the only multi-byte input of the model is 255, which
\* is never valid UTF-8).
utf8_decode(b) ==
    IF \E i \in 1..Len(b) : b[i] >= 128
    THEN [t |-> "UnicodeDecodeError", v |-> b]
    ELSE PyStr(AsciiText(b))

(***************************************************************************)
(* class DaprInternalError                                                 *)
(***************************************************************************)
DaprInternalError_init(message, error_code, raw_response_bytes) ==
    [cls |-> "DaprInternalError",
     message |-> message,
     error_code |-> error_code,
     raw_response_bytes |-> raw_response_bytes]

DaprInternalError_as_dict(o) ==
    PyDict([message |-> o.message,
            errorCode |-> o.error_code,
            raw_response_bytes |-> o.raw_response_bytes])

\* A rendering without the 'Unknown Dapr Error.' fallback.
DaprInternalError_str_NoFallback(o) ==
    IF o.error_code # ERROR_CODE_UNKNOWN
    THEN PyStr("('" \o Format(o.message) \o "', '" \o Format(o.error_code) \o "')")
    ELSE o.message

DaprInternalError_str(o) ==
    IF o.error_code # ERROR_CODE_UNKNOWN
    THEN PyStr("('" \o Format(o.message) \o "', '" \o Format(o.error_code) \o "')")
    ELSE Or(o.message, PyStr("Unknown Dapr Error."))

(***************************************************************************)
(* class DaprHttpError(DaprInternalError)                                  *)
(***************************************************************************)
\* A call of serializer.deserialize without the try/except.
TryDeserialize_Propagates(serializer) ==
    IF serializer.raises
    THEN [raised |-> TRUE, error_info |-> PyNone]
    ELSE [raised |-> FALSE, error_info |-> serializer.value]

\* The try/except around serializer.deserialize: the serializer either
\* raises or returns a value; an exception leaves error_info None.
TryDeserialize(serializer) ==
    IF serializer.raises
    THEN [raised |-> FALSE, error_info |-> PyNone]
    ELSE [raised |-> FALSE, error_info |-> serializer.value]

\* A first branch that forgets the empty body (len(raw_response_bytes) == 0).
IsEmpty404_NoneOnly(raw_response_bytes, status_code) ==
    /\ IsNone(raw_response_bytes)
    /\ status_code = PyInt(404)

\* The first branch of the constructor: no body and status 404.
IsEmpty404(raw_response_bytes, status_code) ==
    /\ (IsNone(raw_response_bytes) \/ Len(raw_response_bytes.v) = 0)
    /\ status_code = PyInt(404)

\* A second branch taken for every body that is not None
\* (elif raw_response_bytes is not None).
DeserializeCalls_NotNone(raw_response_bytes, status_code) ==
    IF (IsNone(raw_response_bytes) \/ Len(raw_response_bytes.v) = 0) /\ status_code = PyInt(404)
    THEN 0
    ELSE IF ~IsNone(raw_response_bytes) THEN 1
    ELSE 0

\* The number of calls of serializer.deserialize the constructor makes.
DeserializeCalls(raw_response_bytes, status_code) ==
    IF IsEmpty404(raw_response_bytes, status_code) THEN 0
    ELSE IF Truthy(raw_response_bytes) THEN 1
    ELSE 0

\* isinstance(error_info, dict)
IsDict(x) == x.t = "dict"

\* A read of the key error_code instead of errorCode.
ExtractErrorCode_WrongKey(error_info) ==
    Or(DictGet(error_info, "error_code", PyNone), ERROR_CODE_UNKNOWN)

\* error_code = error_info.get('errorCode') or ERROR_CODE_UNKNOWN
ExtractErrorCode(error_info) == Or(DictGet(error_info, "errorCode", PyNone), ERROR_CODE_UNKNOWN)

\* message or f'HTTP status code: {status_code}'
FinalMessage(message, status_code) ==
    Or(message, PyStr("HTTP status code: " \o Format(status_code)))

\* The constructor: the object it builds, whether an exception left it, and
\* the number of deserialize calls it made.
DaprHttpError_init(serializer, raw_response_bytes, status_code, reason) ==
    LET first == IsEmpty404(raw_response_bytes, status_code)
        calls == DeserializeCalls(raw_response_bytes, status_code)
        try == IF calls > 0 THEN TryDeserialize(serializer)
               ELSE [raised |-> FALSE, error_info |-> PyNone]
        error_info == try.error_info
        parsed == calls > 0 /\ Truthy(error_info) /\ IsDict(error_info)
        message == IF parsed THEN DictGet(error_info, "message", PyNone) ELSE PyNone
        error_code == IF first THEN ERROR_CODE_DOES_NOT_EXIST
                      ELSE IF parsed THEN ExtractErrorCode(error_info)
                      ELSE ERROR_CODE_UNKNOWN
        raw == IF first THEN PyNone ELSE raw_response_bytes
    IN  [raised |-> try.raised,
         calls |-> calls,
         obj |-> [cls |-> "DaprHttpError",
                  message |-> FinalMessage(message, status_code),
                  error_code |-> error_code,
                  raw_response_bytes |-> raw,
                  status_code |-> status_code,
                  reason |-> reason]]

DaprHttpError_as_dict(o) ==
    PyDict([message |-> o.message,
            errorCode |-> o.error_code,
            raw_response_bytes |-> o.raw_response_bytes,
            status_code |-> o.status_code,
            reason |-> o.reason])

\* A rendering that takes only ERR_DOES_NOT_EXIST for a classified code.
DaprHttpError_str_Only404(o) ==
    IF o.error_code = ERROR_CODE_DOES_NOT_EXIST
    THEN PyStr(Format(o.message) \o " (Error Code: " \o Format(o.error_code)
               \o ", Status Code: " \o Format(o.status_code) \o ")")
    ELSE PyStr("Unknown Dapr Error. HTTP status code: " \o Format(o.status_code) \o ".")

DaprHttpError_str(o) ==
    IF o.error_code # ERROR_CODE_UNKNOWN
    THEN PyStr(Format(o.message) \o " (Error Code: " \o Format(o.error_code)
               \o ", Status Code: " \o Format(o.status_code) \o ")")
    ELSE PyStr("Unknown Dapr Error. HTTP status code: " \o Format(o.status_code) \o ".")

(***************************************************************************)
(* class StatusDetails, class DaprGrpcError, serialize_status_detail       *)
(*                                                                         *)
(* A detail entry of a google.rpc.Status is a packed message               *)
(* [type_name |-> <full name of its type>, value |-> <its field's text>].  *)
(* One field per message is kept (ErrorInfo.reason, DebugInfo.detail, ...):*)
(* the code reads no other field than reason.                              *)
(***************************************************************************)
StatusDetails_init ==
    [error_info |-> PyNone,
     retry_info |-> PyNone,
     debug_info |-> PyNone,
     quota_failure |-> PyNone,
     precondition_failure |-> PyNone,
     bad_request |-> PyNone,
     request_info |-> PyNone,
     resource_info |-> PyNone,
     help |-> PyNone,
     localized_message |-> PyNone]

\* The field the model keeps of a message of each google.rpc type.
FieldName(type_name) ==
    CASE type_name = "google.rpc.ErrorInfo" -> "reason"
      [] type_name = "google.rpc.RetryInfo" -> "retry_delay"
      [] type_name = "google.rpc.DebugInfo" -> "detail"
      [] type_name = "google.rpc.QuotaFailure" -> "violations"
      [] type_name = "google.rpc.PreconditionFailure" -> "violations"
      [] type_name = "google.rpc.BadRequest" -> "field_violations"
      [] type_name = "google.rpc.RequestInfo" -> "request_id"
      [] type_name = "google.rpc.ResourceInfo" -> "resource_name"
      [] type_name = "google.rpc.Help" -> "links"
      [] type_name = "google.rpc.LocalizedMessage" -> "message"
      [] OTHER -> "value"

\* MessageToDict(status_detail, preserving_proto_field_name=True) of a packed
\* message: its @type, and its field unless the field has its default (empty)
\* value, which MessageToDict leaves out.
MessageToDict(status_detail) ==
    LET keys == {"@type"} \cup (IF status_detail.value = "" THEN {}
                               ELSE {FieldName(status_detail.type_name)})
    IN  PyDict([k \in keys |->
                  IF k = "@type"
                  THEN PyStr("type.googleapis.com/" \o status_detail.type_name)
                  ELSE PyStr(status_detail.value)])

serialize_status_detail(status_detail) ==
    IF status_detail = PyNone THEN PyNone ELSE MessageToDict(status_detail)

\* detail.Is(descriptor): the packed message is of the descriptor's type.
Is(detail, full_name) == detail.type_name = full_name

\* The body of the loop of _parse_details, for one detail.
ParseDetail(details, detail) ==
    IF Is(detail, "google.rpc.ErrorInfo")
    THEN [details EXCEPT !.error_info = serialize_status_detail(detail)]
    ELSE IF Is(detail, "google.rpc.RetryInfo")
    THEN [details EXCEPT !.retry_info = serialize_status_detail(detail)]
    ELSE IF Is(detail, "google.rpc.DebugInfo")
    THEN [details EXCEPT !.debug_info = serialize_status_detail(detail)]
    ELSE IF Is(detail, "google.rpc.QuotaFailure")
    THEN [details EXCEPT !.quota_failure = serialize_status_detail(detail)]
    ELSE IF Is(detail, "google.rpc.PreconditionFailure")
    THEN [details EXCEPT !.precondition_failure = serialize_status_detail(detail)]
    ELSE IF Is(detail, "google.rpc.BadRequest")
    THEN [details EXCEPT !.bad_request = serialize_status_detail(detail)]
    ELSE IF Is(detail, "google.rpc.RequestInfo")
    THEN [details EXCEPT !.request_info = serialize_status_detail(detail)]
    ELSE IF Is(detail, "google.rpc.ResourceInfo")
    THEN [details EXCEPT !.resource_info = serialize_status_detail(detail)]
    ELSE IF Is(detail, "google.rpc.Help")
    THEN [details EXCEPT !.help = serialize_status_detail(detail)]
    ELSE IF Is(detail, "google.rpc.LocalizedMessage")
    THEN [details EXCEPT !.localized_message = serialize_status_detail(detail)]
    ELSE details

RECURSIVE ParseLoop(_, _)
ParseLoop(details, entries) ==
    IF entries = <<>> THEN details
    ELSE ParseLoop(ParseDetail(details, Head(entries)), Tail(entries))

\* A loop that stops after the first detail.
parse_details_FirstOnly(details, grpc_status) ==
    IF grpc_status = PyNone THEN details
    ELSE IF grpc_status.details = <<>> THEN details
    ELSE ParseDetail(details, Head(grpc_status.details))

\* _parse_details: grpc_status is None, or a status with its details.
parse_details(details, grpc_status) ==
    IF grpc_status = PyNone THEN details ELSE ParseLoop(details, grpc_status.details)

\* err is the RpcError: code(), details() and the status rpc_status.from_call
\* finds in its trailing metadata (None when there is none).
DaprGrpcError_init(err) ==
    [cls |-> "DaprGrpcError",
     status_code |-> err.code,
     err_message |-> err.details,
     details |-> parse_details(StatusDetails_init, err.status),
     grpc_status |-> err.status]

status_details(o) == o.details

\* error_info.get('reason') without the default.
DaprGrpcError_error_code_NoDefault(o) ==
    IF ~Truthy(o.details.error_info)
    THEN ERROR_CODE_UNKNOWN
    ELSE DictGet(o.details.error_info, "reason", PyNone)

DaprGrpcError_error_code(o) ==
    IF ~Truthy(status_details(o).error_info)
    THEN ERROR_CODE_UNKNOWN
    ELSE DictGet(status_details(o).error_info, "reason", ERROR_CODE_UNKNOWN)

(***************************************************************************)
(* Method dispatch on the class of the object.                             *)
(***************************************************************************)
as_dict(o) ==
    IF o.cls = "DaprHttpError" THEN DaprHttpError_as_dict(o) ELSE DaprInternalError_as_dict(o)

str(o) ==
    IF o.cls = "DaprHttpError" THEN DaprHttpError_str(o) ELSE DaprInternalError_str(o)

\* An encoding only of bytes that are truthy (if self._raw_response_bytes).
as_json_safe_dict_Truthy(o) ==
    IF Truthy(o.raw_response_bytes)
    THEN PyDict([as_dict(o).v EXCEPT !.raw_response_bytes =
                                       utf8_decode(b64encode(o.raw_response_bytes.v))])
    ELSE as_dict(o)

\* DaprInternalError.as_json_safe_dict, inherited by DaprHttpError; a
\* decode that raises leaves the method with the exception.
as_json_safe_dict(o) ==
    LET error_dict == as_dict(o)
    IN  IF ~IsNone(o.raw_response_bytes)
        THEN LET text == utf8_decode(b64encode(o.raw_response_bytes.v))
             IN  IF text.t = "str"
                 THEN PyDict([error_dict.v EXCEPT !.raw_response_bytes = text])
                 ELSE text
        ELSE error_dict

(***************************************************************************)
(* The arguments the constructors are called with.                         *)
(***************************************************************************)
ByteVals == {0, 77, 255}
BodySeqs == UNION {[1..n -> ByteVals] : n \in 0..MaxBodyLen}
RawBodies == {PyNone} \cup {PyBytes(b) : b \in BodySeqs}
Messages == {PyNone, PyStr(""), PyStr("db down")}
ErrorCodes == {PyNone, PyStr(""), ERROR_CODE_UNKNOWN, PyStr("ERR_DB")}
StatusCodes == {PyNone, PyInt(404), PyInt(500)}
Reasons == {PyNone, PyStr("Not Found")}

\* The mappings a deserializer may return: any subset of the keys message,
\* errorCode and an unrelated key.
KeyValues(k) ==
    CASE k = "message" -> {PyNone, PyStr(""), PyStr("db down")}
      [] k = "errorCode" -> {PyNone, PyStr(""), PyStr("ERR_DB")}
      [] k = "traceId" -> {PyStr("t1")}
AllKeyValues == UNION {KeyValues(k) : k \in {"message", "errorCode", "traceId"}}
Mappings ==
    UNION {{f \in [S -> AllKeyValues] : \A k \in S : f[k] \in KeyValues(k)} :
           S \in SUBSET {"message", "errorCode", "traceId"}}

\* What serializer.deserialize does on the body: it raises, or it returns a
\* value of some type.
Serializers ==
    {[raises |-> TRUE, value |-> PyNone]}
    \cup {[raises |-> FALSE, value |-> x] :
          x \in {PyNone, PyStr("oops"), PyInt(0), PyList(<<>>), PyList(<<1>>)}}
    \cup {[raises |-> FALSE, value |-> PyDict(f)] : f \in Mappings}

\* The detail entries of a status: the ten known types and one unknown to
\* this client, each with its field empty or set.
KnownTypes ==
    {"google.rpc.ErrorInfo", "google.rpc.RetryInfo", "google.rpc.DebugInfo",
     "google.rpc.QuotaFailure", "google.rpc.PreconditionFailure",
     "google.rpc.BadRequest", "google.rpc.RequestInfo", "google.rpc.ResourceInfo",
     "google.rpc.Help", "google.rpc.LocalizedMessage"}
DetailTypes == KnownTypes \cup {"google.protobuf.Duration"}
FieldValues(type_name) ==
    IF type_name = "google.rpc.ErrorInfo" THEN {"", "QUOTA_EXCEEDED"} ELSE {"", "x"}
Details ==
    UNION {{[type_name |-> k, value |-> x] : x \in FieldValues(k)} : k \in DetailTypes}
DetailSeqs == UNION {[1..n -> Details] : n \in 0..MaxDetails}
GrpcStatuses == {PyNone} \cup {[details |-> d] : d \in DetailSeqs}
RpcErrors ==
    {[code |-> c, details |-> "quota", status |-> st] :
     c \in {"NOT_FOUND", "RESOURCE_EXHAUSTED"}, st \in GrpcStatuses}

NoObject == [cls |-> "none"]
NoResult == [op |-> "none", v |-> PyNone]

Init ==
    /\ self = NoObject
    /\ args = NoObject
    /\ deserialize_calls = 0
    /\ raised = FALSE
    /\ result = NoResult

\* An error is constructed at a failure boundary, once per failure.
NewDaprInternalError ==
    /\ self = NoObject
    /\ ~raised
    /\ \E message \in Messages, error_code \in ErrorCodes, raw_response_bytes \in RawBodies :
        /\ self' = DaprInternalError_init(message, error_code, raw_response_bytes)
        /\ args' = [cls |-> "DaprInternalError", message |-> message,
                    error_code |-> error_code, raw_response_bytes |-> raw_response_bytes]
        /\ UNCHANGED <<deserialize_calls, raised, result>>

NewDaprHttpError ==
    /\ self = NoObject
    /\ ~raised
    /\ \E serializer \in Serializers, raw_response_bytes \in RawBodies,
       status_code \in StatusCodes, reason \in Reasons :
        LET r == DaprHttpError_init(serializer, raw_response_bytes, status_code, reason)
        IN  /\ self' = IF r.raised THEN NoObject ELSE r.obj
            /\ args' = [cls |-> "DaprHttpError", serializer |-> serializer,
                        raw_response_bytes |-> raw_response_bytes,
                        status_code |-> status_code, reason |-> reason]
            /\ deserialize_calls' = r.calls
            /\ raised' = r.raised
            /\ UNCHANGED result

NewDaprGrpcError ==
    /\ self = NoObject
    /\ ~raised
    /\ \E err \in RpcErrors :
        /\ self' = DaprGrpcError_init(err)
        /\ args' = [cls |-> "DaprGrpcError", err |-> err]
        /\ UNCHANGED <<deserialize_calls, raised, result>>

\* The error has been handled; the next failure starts afresh.
Handled ==
    /\ self # NoObject \/ raised
    /\ self' = NoObject
    /\ args' = NoObject
    /\ deserialize_calls' = 0
    /\ raised' = FALSE
    /\ result' = NoResult

HasError == self.cls \in {"DaprInternalError", "DaprHttpError"}

CallStr ==
    /\ HasError
    /\ result' = [op |-> "str", v |-> str(self)]
    /\ UNCHANGED <<self, args, deserialize_calls, raised>>

CallAsDict ==
    /\ HasError
    /\ result' = [op |-> "as_dict", v |-> as_dict(self)]
    /\ UNCHANGED <<self, args, deserialize_calls, raised>>

CallAsJsonSafeDict ==
    /\ HasError
    /\ result' = [op |-> "as_json_safe_dict", v |-> as_json_safe_dict(self)]
    /\ UNCHANGED <<self, args, deserialize_calls, raised>>

CallErrorCode ==
    /\ self.cls = "DaprGrpcError"
    /\ result' = [op |-> "error_code", v |-> DaprGrpcError_error_code(self)]
    /\ UNCHANGED <<self, args, deserialize_calls, raised>>

CallStatusDetails ==
    /\ self.cls = "DaprGrpcError"
    /\ result' = [op |-> "status_details", v |-> status_details(self)]
    /\ UNCHANGED <<self, args, deserialize_calls, raised>>

Next ==
    \/ NewDaprInternalError
    \/ NewDaprHttpError
    \/ NewDaprGrpcError
    \/ CallErrorCode
    \/ CallStatusDetails
    \/ CallStr
    \/ CallAsDict
    \/ CallAsJsonSafeDict
    \/ Handled

Spec == Init /\ [][Next]_vars

(***************************************************************************)
(* Properties.                                                             *)
(***************************************************************************)
IsHttp == args.cls = "DaprHttpError"
DefaultMessage(status_code) == PyStr("HTTP status code: " \o Format(status_code))

\* C1: a DaprHttpError built with status 404 and a body that is None or
\* empty has error_code ERR_DOES_NOT_EXIST, raw_response_bytes None and the
\* message "HTTP status code: 404", whatever the deserializer and reason.
C1_Empty404 ==
    (IsHttp /\ args.status_code = PyInt(404) /\ ~Truthy(args.raw_response_bytes))
    => /\ self.cls = "DaprHttpError"
       /\ self.error_code = PyStr("ERR_DOES_NOT_EXIST")
       /\ self.raw_response_bytes = PyNone
       /\ self.message = PyStr("HTTP status code: 404")

C1_Witness ==
    /\ IsHttp
    /\ args.status_code = PyInt(404)
    /\ args.raw_response_bytes = PyBytes(<<>>)
    /\ ~args.serializer.raises
    /\ args.serializer.value.t = "dict"
    /\ args.reason = PyStr("Not Found")
    /\ self.error_code = PyStr("ERR_DOES_NOT_EXIST")

\* The deserializer returned exactly the mapping {"message": m, "errorCode": c}
\* for a non-empty body.
DeserializedPair ==
    /\ IsHttp
    /\ Truthy(args.raw_response_bytes)
    /\ ~args.serializer.raises
    /\ args.serializer.value.t = "dict"
    /\ DOMAIN args.serializer.value.v = {"message", "errorCode"}

\* C2 as stated: for every m and every c of such a mapping, message == m and
\* error_code == c.
C2_EveryPair ==
    DeserializedPair
    => /\ self.message = args.serializer.value.v["message"]
       /\ self.error_code = args.serializer.value.v["errorCode"]

\* C2, amended: for every non-empty body the deserializer turns into
\* {"message": m, "errorCode": c} with m and c truthy (not None, not empty),
\* and every status code, message == m and error_code == c.
C2_TruthyPair ==
    (/\ DeserializedPair
     /\ Truthy(args.serializer.value.v["message"])
     /\ Truthy(args.serializer.value.v["errorCode"]))
    => /\ self.cls = "DaprHttpError"
       /\ self.message = args.serializer.value.v["message"]
       /\ self.error_code = args.serializer.value.v["errorCode"]

C2_Witness ==
    /\ DeserializedPair
    /\ args.serializer.value.v["message"] = PyStr("db down")
    /\ args.serializer.value.v["errorCode"] = PyStr("ERR_DB")
    /\ args.status_code = PyInt(404)
    /\ self.error_code = PyStr("ERR_DB")

\* C3: for every non-empty body and status code, when the deserializer raises
\* or returns a value that is not a mapping, the construction does not raise,
\* error_code is UNKNOWN, the message is "HTTP status code: {status_code}" and
\* raw_response_bytes is the body as given.
C3_DeserializeFailure ==
    (/\ IsHttp
     /\ Truthy(args.raw_response_bytes)
     /\ (args.serializer.raises \/ args.serializer.value.t # "dict"))
    => /\ ~raised
       /\ self.cls = "DaprHttpError"
       /\ self.error_code = PyStr("UNKNOWN")
       /\ self.message = DefaultMessage(args.status_code)
       /\ self.raw_response_bytes = args.raw_response_bytes

C3_Witness ==
    /\ IsHttp
    /\ args.raw_response_bytes = PyBytes(<<255, 0>>)
    /\ args.serializer.raises
    /\ args.status_code = PyInt(500)
    /\ self.cls = "DaprHttpError"
    /\ self.message = PyStr("HTTP status code: 500")

\* C4: the error code of every error object is a non-empty value: the
\* error_code of a DaprInternalError or DaprHttpError, and what
\* DaprGrpcError.error_code() returns.
C4_ErrorCodeNeverEmpty ==
    /\ self.cls \in {"DaprInternalError", "DaprHttpError"} => Truthy(self.error_code)
    /\ result.op = "error_code" => Truthy(result.v)

\* The detail entries of the status the DaprGrpcError was built from that
\* are of the type.
EntriesOf(type_name) ==
    IF args.err.status = PyNone THEN {}
    ELSE {i \in DOMAIN args.err.status.details :
            args.err.status.details[i].type_name = type_name}

LastOf(type_name) ==
    args.err.status.details[CHOOSE i \in EntriesOf(type_name) :
                              \A j \in EntriesOf(type_name) : j <= i]

\* C5: error_code() is the reason of the error-info detail when there is one
\* with a reason, and "UNKNOWN" with no status, with a status without
\* error-info detail, and with an error-info detail without reason.
C5_GrpcErrorCode ==
    result.op = "error_code"
    => result.v = IF EntriesOf("google.rpc.ErrorInfo") = {} THEN PyStr("UNKNOWN")
                  ELSE IF LastOf("google.rpc.ErrorInfo").value = "" THEN PyStr("UNKNOWN")
                  ELSE PyStr(LastOf("google.rpc.ErrorInfo").value)

C5_Witness ==
    /\ result.op = "error_code"
    /\ result.v = PyStr("QUOTA_EXCEEDED")
    /\ Len(args.err.status.details) = 2
    /\ args.err.status.details[2].type_name # "google.rpc.ErrorInfo"

\* The StatusDetails field of each known detail type.
FieldOfType(type_name) ==
    CASE type_name = "google.rpc.ErrorInfo" -> "error_info"
      [] type_name = "google.rpc.RetryInfo" -> "retry_info"
      [] type_name = "google.rpc.DebugInfo" -> "debug_info"
      [] type_name = "google.rpc.QuotaFailure" -> "quota_failure"
      [] type_name = "google.rpc.PreconditionFailure" -> "precondition_failure"
      [] type_name = "google.rpc.BadRequest" -> "bad_request"
      [] type_name = "google.rpc.RequestInfo" -> "request_info"
      [] type_name = "google.rpc.ResourceInfo" -> "resource_info"
      [] type_name = "google.rpc.Help" -> "help"
      [] type_name = "google.rpc.LocalizedMessage" -> "localized_message"

\* C6: after construction each of the ten StatusDetails fields holds the
\* decoded mapping of the last entry of its type, and None when the status
\* has no entry of that type (or there is no status); entries of another
\* type change nothing.
C6_LastDetailPerKind ==
    self.cls = "DaprGrpcError"
    => /\ DOMAIN self.details = {FieldOfType(k) : k \in KnownTypes}
       /\ \A k \in KnownTypes :
            self.details[FieldOfType(k)] =
                IF EntriesOf(k) = {} THEN PyNone ELSE MessageToDict(LastOf(k))

C6_Witness ==
    /\ self.cls = "DaprGrpcError"
    /\ args.err.status # PyNone
    /\ Len(args.err.status.details) = 2
    /\ args.err.status.details[1] = [type_name |-> "google.rpc.DebugInfo", value |-> ""]
    /\ args.err.status.details[2] = [type_name |-> "google.rpc.DebugInfo", value |-> "x"]
    /\ "detail" \in DOMAIN self.details.debug_info.v

\* C7: str(error) of every DaprInternalError and DaprHttpError is a
\* non-empty string.
C7_StrNonEmpty ==
    result.op = "str" => (result.v.t = "str" /\ Len(result.v.v) > 0)

C7_Witness ==
    /\ result.op = "str"
    /\ self.cls = "DaprInternalError"
    /\ self.message = PyStr("")
    /\ self.error_code = PyStr("UNKNOWN")
    /\ result.v = PyStr("Unknown Dapr Error.")

\* C8: a DaprHttpError construction calls the deserializer exactly once when
\* the body is non-empty and not at all when the body is None or empty, for
\* any status code.
C8_DeserializeOnce ==
    IsHttp => deserialize_calls = (IF Truthy(args.raw_response_bytes) THEN 1 ELSE 0)

C8_Witness ==
    /\ IsHttp
    /\ args.status_code = PyInt(404)
    /\ args.raw_response_bytes = PyBytes(<<77>>)
    /\ deserialize_calls = 1

\* The value 0..63 of a sign of the base64 alphabet.
B64Value(c) == CHOOSE i \in 0..63 : Chr(B64Code(i)) = c

\* The bytes a base64 text stands for.
RECURSIVE B64Decode(_)
B64Decode(t) ==
    IF t = "" THEN <<>>
    ELSE LET ch(i) == SubSeq(t, i, i)
             hi == B64Value(ch(1)) * 262144 + B64Value(ch(2)) * 4096
         IN  IF ch(3) = "=" THEN <<hi \div 65536>>
             ELSE IF ch(4) = "="
             THEN LET n == hi + B64Value(ch(3)) * 64
                  IN  <<n \div 65536, (n \div 256) % 256>>
             ELSE LET n == hi + B64Value(ch(3)) * 64 + B64Value(ch(4))
                  IN  <<n \div 65536, (n \div 256) % 256, n % 256>>
                      \o B64Decode(SubSeq(t, 5, Len(t)))

\* C9: as_json_safe_dict() has the keys and values of as_dict(), except that
\* raw_response_bytes, when not None, is the base64 text of the bytes; no
\* value of the result is a byte sequence, and with raw_response_bytes None
\* the two mappings are equal.
C9_JsonSafeDict ==
    result.op = "as_json_safe_dict"
    => /\ result.v.t = "dict"
       /\ DOMAIN result.v.v = DOMAIN as_dict(self).v
       /\ \A k \in DOMAIN result.v.v :
            /\ result.v.v[k].t # "bytes"
            /\ k # "raw_response_bytes" => result.v.v[k] = as_dict(self).v[k]
       /\ IF self.raw_response_bytes = PyNone
          THEN result.v = as_dict(self)
          ELSE /\ result.v.v["raw_response_bytes"].t = "str"
               /\ Len(result.v.v["raw_response_bytes"].v)
                    = 4 * ((Len(self.raw_response_bytes.v) + 2) \div 3)
               /\ B64Decode(result.v.v["raw_response_bytes"].v) = self.raw_response_bytes.v

C9_Witness ==
    /\ result.op = "as_json_safe_dict"
    /\ self.cls = "DaprHttpError"
    /\ self.raw_response_bytes = PyBytes(<<255, 0>>)
    /\ result.v.v["raw_response_bytes"] = PyStr("/wA=")

UnknownFallback(status_code) ==
    PyStr("Unknown Dapr Error. HTTP status code: " \o Format(status_code) \o ".")

\* str() of a DaprHttpError gave the unknown-fallback text.
RenderedFallback ==
    /\ result.op = "str"
    /\ self.cls = "DaprHttpError"
    /\ result.v = UnknownFallback(self.status_code)

====
